---- MODULE Spec2Model ----
(***************************************************************************)
(* A model of cryptography/hazmat/backends/openssl/x25519.py: the two      *)
(* key classes _X25519PublicKey and _X25519PrivateKey, their export,       *)
(* derivation and exchange methods, and the provider (OpenSSL through the  *)
(* backend) they call.  Every method is a thread's sequence of steps: the  *)
(* entry (argument validation and dispatch), then one step per provider or *)
(* collaborator call, then the return.                                     *)
(***************************************************************************)
EXTENDS Integers, Sequences, FiniteSets, TLC

VARIABLES
    objs,      \* the key objects: objs[o] = [cls, backend, evp_pkey]
    heap,      \* the provider's EVP_PKEY structures, by handle (1..Len(heap))
    pc,        \* pc[t]: where thread t stands
    fr,        \* fr[t]: the frame of the call thread t is in (args, locals, result)
    derived    \* history: derived[p] = the private key object p was derived from (0: none)

vars == <<objs, heap, pc, fr, derived>>

----------------------------------------------------------------------------
(* Bounds of the model. *)

MaxScalar == 2        \* private scalars are drawn from 1..MaxScalar
MaxHandles == 4       \* the provider can hold this many EVP_PKEY structures
GroupModulus == 23    \* the stand-in group for Curve25519: (Z/GroupModulus)
GroupGenerator == 5   \* its base point

(* Program constants. *)

X25519_KEY_SIZE == 32

Threads == {1, 2}
SeqThreads == {1}

NULL == 0
Backend == "backend"

Encoding == {"Raw", "PEM", "DER"}
PublicFormat == {"Raw", "SubjectPublicKeyInfo"}
PrivateFormat == {"Raw", "PKCS8", "TraditionalOpenSSL"}
KeySerializationEncryption == {"NoEncryption", "BestAvailableEncryption"}

----------------------------------------------------------------------------
(* Bytes. *)

RECURSIVE LE(_, _)
\* v as n little-endian bytes
LE(v, n) == IF n = 0 THEN <<>> ELSE <<v % 256>> \o LE(v \div 256, n - 1)

RECURSIVE FromLE(_)
FromLE(b) == IF b = <<>> THEN 0 ELSE Head(b) + 256 * FromLE(Tail(b))

Zeros(n) == [i \in 1..n |-> 0]

\* ffi.new("unsigned char []", n): a zero-initialised buffer
ffi_new_buf(n) == Zeros(n)

\* ffi.buffer(buf, n)[:]: the first n bytes of buf, copied out
ffi_buffer(buf, n) == SubSeq(buf, 1, n)

----------------------------------------------------------------------------
(* The provider: X25519 in a small group. *)

RECURSIVE Pow(_, _, _)
Pow(b, e, m) == IF e = 0 THEN 1 % m ELSE (b * Pow(b, e - 1, m)) % m

\* the public point of a private scalar
ScalarBaseMult(s) == Pow(GroupGenerator, s, GroupModulus)

\* X25519(scalar, point)
ScalarMult(s, point) == Pow(point, s, GroupModulus)

\* an EVP_PKEY holding a private key (and with it its public part)
PrivatePKey(s) == [has_private |-> TRUE, scalar |-> s, point |-> ScalarBaseMult(s)]

\* an EVP_PKEY holding only a public key
PublicPKey(p) == [has_private |-> FALSE, scalar |-> 0, point |-> p]

\* the DER SubjectPublicKeyInfo of an X25519 public key
SPKIPrefix == <<48, 42, 48, 5, 6, 3, 43, 101, 110, 3, 33, 0>>

SPKI(point) == SPKIPrefix \o LE(point, X25519_KEY_SIZE)

IsSPKI(der) ==
    /\ Len(der) = Len(SPKIPrefix) + X25519_KEY_SIZE
    /\ SubSeq(der, 1, Len(SPKIPrefix)) = SPKIPrefix

SPKIPoint(der) == FromLE(SubSeq(der, Len(SPKIPrefix) + 1, Len(der)))

\* the lengths a raw export may report on success
ReportedLens == {0, X25519_KEY_SIZE - 1, X25519_KEY_SIZE}

\* what a raw export leaves in buf: the first n bytes of the key
WriteRaw(buf, key, n) ==
    [i \in 1..Len(buf) |-> IF i <= n /\ i <= Len(key) THEN key[i] ELSE buf[i]]

\* backend.openssl_assert(ok): returns, or raises InternalError
openssl_assert(ok) == IF ok THEN "ok" ELSE "InternalError"

----------------------------------------------------------------------------
(* Results and frames. *)

NoRet == [kind |-> "none", val |-> <<>>, msg |-> "", obj |-> 0]
Bytes(b) == [kind |-> "bytes", val |-> b, msg |-> "", obj |-> 0]
Raise(k, m) == [kind |-> k, val |-> <<>>, msg |-> m, obj |-> 0]
Object(o) == [kind |-> "X25519PublicKey", val |-> <<>>, msg |-> "", obj |-> o]

InternalError == Raise("InternalError", "openssl_assert")

NoFrame ==
    [op |-> "none", self |-> 0, evp0 |-> 0, encoding |-> "none", format |-> "none",
     encryption_algorithm |-> "none", peer |-> 0, path |-> "none",
     res |-> -1, buflen |-> -1, buf |-> <<>>, bio |-> <<>>,
     calls |-> <<>>, ret |-> NoRet]

\* one call of the provider or of the structured-encoding collaborator
Call(fn, enc, fmt, alg, key, evp_pkey, peer, last) ==
    [fn |-> fn, encoding |-> enc, format |-> fmt, encryption_algorithm |-> alg,
     key |-> key, evp_pkey |-> evp_pkey, peer |-> peer, last |-> last]

ProviderCall(fn, evp_pkey, peer) ==
    Call(fn, "none", "none", "none", 0, evp_pkey, peer, "none")

PublicKeys == {o \in DOMAIN objs : objs[o].cls = "X25519PublicKey"}
PrivateKeys == {o \in DOMAIN objs : objs[o].cls = "X25519PrivateKey"}

\* _X25519PublicKey(backend, evp_pkey) and _X25519PrivateKey(backend, evp_pkey)
X25519PublicKey_init(backend, evp_pkey) ==
    [cls |-> "X25519PublicKey", backend |-> backend, evp_pkey |-> evp_pkey]

X25519PrivateKey_init(backend, evp_pkey) ==
    [cls |-> "X25519PrivateKey", backend |-> backend, evp_pkey |-> evp_pkey]

----------------------------------------------------------------------------
(* Two private keys, loaded by the backend; no call in progress. *)

Init ==
    \E a \in 1..MaxScalar, b \in 1..MaxScalar :
        /\ heap = <<PrivatePKey(a), PrivatePKey(b)>>
        /\ objs = <<X25519PrivateKey_init(Backend, 1), X25519PrivateKey_init(Backend, 2)>>
        /\ pc = [t \in Threads |-> "idle"]
        /\ fr = [t \in Threads |-> NoFrame]
        /\ derived = <<0, 0>>

Enter(t, label, frame) ==
    /\ pc' = [pc EXCEPT ![t] = label]
    /\ fr' = [fr EXCEPT ![t] = frame]

----------------------------------------------------------------------------
(* _X25519PublicKey.public_bytes *)

\* public_bytes without the inner check: any Raw takes the raw path
public_bytes_path_any_raw(encoding, format) ==
    IF encoding = "Raw" \/ format = "Raw" THEN "raw" ELSE "delegate"

\* the branch public_bytes takes
public_bytes_path(encoding, format) ==
    IF encoding = "Raw" \/ format = "Raw"
    THEN IF encoding # "Raw" \/ format # "Raw" THEN "ValueError" ELSE "raw"
    ELSE "delegate"

RawMsg == "When using Raw both encoding and format must be Raw"

CallPublicBytes(t) ==
    /\ pc[t] = "idle"
    /\ \E k \in PublicKeys, encoding \in Encoding, format \in PublicFormat :
        LET path == public_bytes_path(encoding, format)
            f == [NoFrame EXCEPT !.op = "public_bytes", !.self = k,
                                 !.evp0 = objs[k].evp_pkey,
                                 !.encoding = encoding, !.format = format,
                                 !.path = path]
        IN  CASE path = "ValueError" ->
                    Enter(t, "done", [f EXCEPT !.ret = Raise("ValueError", RawMsg)])
              [] path = "raw" ->
                    Enter(t, "raw_public",
                          [f EXCEPT !.buf = ffi_new_buf(X25519_KEY_SIZE),
                                    !.buflen = X25519_KEY_SIZE])
              [] OTHER ->
                    Enter(t, "public_key_bytes", f)
    /\ UNCHANGED <<objs, heap, derived>>

\* _raw_public_bytes without the assertion on the length
raw_public_bytes_no_len_check(res, buflen, buf) ==
    IF openssl_assert(res = 1) # "ok" THEN InternalError
    ELSE Bytes(ffi_buffer(buf, X25519_KEY_SIZE))

\* _raw_public_bytes raising an error of its own for a failed native call
raw_public_bytes_propagating(res, buflen, buf) ==
    IF res # 1 THEN Raise("ProviderFailure", "EVP_PKEY_get_raw_public_key")
    ELSE IF openssl_assert(buflen = X25519_KEY_SIZE) # "ok" THEN InternalError
    ELSE Bytes(ffi_buffer(buf, X25519_KEY_SIZE))

\* _raw_public_bytes, from EVP_PKEY_get_raw_public_key's answer on
raw_public_bytes(res, buflen, buf) ==
    IF openssl_assert(res = 1) # "ok" THEN InternalError
    ELSE IF openssl_assert(buflen = X25519_KEY_SIZE) # "ok" THEN InternalError
    ELSE Bytes(ffi_buffer(buf, X25519_KEY_SIZE))

\* EVP_PKEY_get_raw_public_key(evp_pkey, buf, buflen): fails, or writes the
\* point and the length it wrote
RawPublicExport(t) ==
    /\ pc[t] = "raw_public"
    /\ LET f == fr[t]
           h == objs[f.self].evp_pkey
           c == ProviderCall("EVP_PKEY_get_raw_public_key", h, 0)
       IN  \/ LET g == [f EXCEPT !.res = 0, !.calls = Append(@, c)]
              IN  Enter(t, "done",
                        [g EXCEPT !.ret = raw_public_bytes(g.res, g.buflen, g.buf)])
           \/ \E n \in ReportedLens :
                LET g == [f EXCEPT !.res = 1, !.buflen = n,
                                   !.buf = WriteRaw(@, LE(heap[h].point, X25519_KEY_SIZE), n),
                                   !.calls = Append(@, c)]
                IN  Enter(t, "done",
                          [g EXCEPT !.ret = raw_public_bytes(g.res, g.buflen, g.buf)])
    /\ UNCHANGED <<objs, heap, derived>>

\* what the structured-encoding collaborator answers: the encoded key, or its
\* own refusal of the combination
Armor(encoding, der) == IF encoding = "PEM" THEN <<45>> \o der \o <<45>> ELSE der

StructuredResults(encoding, der) ==
    {Bytes(Armor(encoding, der)), Raise("ValueError", "unsupported")}

\* backend._public_key_bytes(encoding, format, self, self._evp_pkey, None)
public_key_bytes_call(f, self_obj) ==
    Call("_public_key_bytes", f.encoding, f.format, "absent", f.self,
         self_obj.evp_pkey, 0, "None")

PublicKeyBytes(t) ==
    /\ pc[t] = "public_key_bytes"
    /\ LET f == fr[t]
           c == public_key_bytes_call(f, objs[f.self])
       IN  \E r \in StructuredResults(f.encoding, SPKI(heap[c.evp_pkey].point)) :
                Enter(t, "done", [f EXCEPT !.calls = Append(@, c), !.ret = r])
    /\ UNCHANGED <<objs, heap, derived>>

----------------------------------------------------------------------------
(* _X25519PrivateKey.private_bytes *)

isinstance_NoEncryption(encryption_algorithm) == encryption_algorithm = "NoEncryption"

\* private_bytes with the public check: the encryption algorithm is not looked at
private_bytes_path_no_alg(encoding, format, encryption_algorithm) ==
    IF encoding = "Raw" \/ format = "Raw"
    THEN IF format # "Raw" \/ encoding # "Raw" THEN "ValueError" ELSE "raw"
    ELSE "delegate"

\* the branch private_bytes takes
private_bytes_path(encoding, format, encryption_algorithm) ==
    IF encoding = "Raw" \/ format = "Raw"
    THEN IF \/ format # "Raw"
            \/ encoding # "Raw"
            \/ ~isinstance_NoEncryption(encryption_algorithm)
         THEN "ValueError"
         ELSE "raw"
    ELSE "delegate"

RawPrivateMsg ==
    "When using Raw both encoding and format must be Raw and encryption_algorithm must be NoEncryption()"

CallPrivateBytes(t) ==
    /\ pc[t] = "idle"
    /\ \E k \in PrivateKeys, encoding \in Encoding, format \in PrivateFormat,
          alg \in KeySerializationEncryption :
        LET path == private_bytes_path(encoding, format, alg)
            f == [NoFrame EXCEPT !.op = "private_bytes", !.self = k,
                                 !.evp0 = objs[k].evp_pkey,
                                 !.encoding = encoding, !.format = format,
                                 !.encryption_algorithm = alg, !.path = path]
        IN  CASE path = "ValueError" ->
                    Enter(t, "done", [f EXCEPT !.ret = Raise("ValueError", RawPrivateMsg)])
              [] path = "raw" ->
                    Enter(t, "raw_private",
                          [f EXCEPT !.buf = ffi_new_buf(X25519_KEY_SIZE),
                                    !.buflen = X25519_KEY_SIZE])
              [] OTHER ->
                    Enter(t, "private_key_bytes", f)
    /\ UNCHANGED <<objs, heap, derived>>

\* _raw_private_bytes, from EVP_PKEY_get_raw_private_key's answer on
raw_private_bytes(res, buflen, buf) ==
    IF openssl_assert(res = 1) # "ok" THEN InternalError
    ELSE IF openssl_assert(buflen = X25519_KEY_SIZE) # "ok" THEN InternalError
    ELSE Bytes(ffi_buffer(buf, X25519_KEY_SIZE))

\* EVP_PKEY_get_raw_private_key(evp_pkey, buf, buflen): fails (always, on a key
\* with no private part), or writes the scalar and the length it wrote
RawPrivateExport(t) ==
    /\ pc[t] = "raw_private"
    /\ LET f == fr[t]
           h == objs[f.self].evp_pkey
           c == ProviderCall("EVP_PKEY_get_raw_private_key", h, 0)
       IN  \/ LET g == [f EXCEPT !.res = 0, !.calls = Append(@, c)]
              IN  Enter(t, "done",
                        [g EXCEPT !.ret = raw_private_bytes(g.res, g.buflen, g.buf)])
           \/ /\ heap[h].has_private
              /\ \E n \in ReportedLens :
                    LET g == [f EXCEPT !.res = 1, !.buflen = n,
                                       !.buf = WriteRaw(@, LE(heap[h].scalar, X25519_KEY_SIZE), n),
                                       !.calls = Append(@, c)]
                    IN  Enter(t, "done",
                              [g EXCEPT !.ret = raw_private_bytes(g.res, g.buflen, g.buf)])
    /\ UNCHANGED <<objs, heap, derived>>

PKCS8Prefix == <<48, 46, 2, 1, 0, 48, 5, 6, 3, 43, 101, 110, 4, 34, 4, 32>>

\* the delegation with the caller's algorithm dropped
private_key_bytes_call_unencrypted(f, self_obj) ==
    Call("_private_key_bytes", f.encoding, f.format, "NoEncryption", f.self,
         self_obj.evp_pkey, 0, "None")

\* backend._private_key_bytes(encoding, format, encryption_algorithm, self,
\*                            self._evp_pkey, None)
private_key_bytes_call(f, self_obj) ==
    Call("_private_key_bytes", f.encoding, f.format, f.encryption_algorithm, f.self,
         self_obj.evp_pkey, 0, "None")

PrivateKeyBytes(t) ==
    /\ pc[t] = "private_key_bytes"
    /\ LET f == fr[t]
           c == private_key_bytes_call(f, objs[f.self])
           der == IF c.encryption_algorithm = "NoEncryption"
                  THEN PKCS8Prefix \o LE(heap[c.evp_pkey].scalar, X25519_KEY_SIZE)
                  ELSE <<>>  \* an encrypted container: opaque here
       IN  \E r \in StructuredResults(f.encoding, der) :
                Enter(t, "done", [f EXCEPT !.calls = Append(@, c), !.ret = r])
    /\ UNCHANGED <<objs, heap, derived>>

----------------------------------------------------------------------------
(* _X25519PrivateKey.exchange *)

\* 0 stands for an argument that is no key object at all
PeerArgs == DOMAIN objs \cup {0}

isinstance_X25519PublicKey(peer) ==
    peer \in DOMAIN objs /\ objs[peer].cls = "X25519PublicKey"

\* exchange with the derive call made before the type check
exchange_entry_derive_first(is_public_key, self_evp, peer) ==
    IF ~is_public_key
    THEN [label |-> "done",
          calls |-> <<ProviderCall("_evp_pkey_derive", self_evp, peer)>>,
          ret |-> Raise("TypeError", "peer_public_key must be X25519PublicKey.")]
    ELSE [label |-> "derive", calls |-> <<>>, ret |-> NoRet]

\* exchange up to its call of _evp_pkey_derive: where it goes, and the
\* provider calls it has made by then
exchange_entry(is_public_key, self_evp, peer) ==
    IF ~is_public_key
    THEN [label |-> "done", calls |-> <<>>,
          ret |-> Raise("TypeError", "peer_public_key must be X25519PublicKey.")]
    ELSE [label |-> "derive", calls |-> <<>>, ret |-> NoRet]

CallExchange(t) ==
    /\ pc[t] = "idle"
    /\ \E k \in PrivateKeys, peer \in PeerArgs :
        LET e == exchange_entry(isinstance_X25519PublicKey(peer), objs[k].evp_pkey, peer)
        IN  Enter(t, e.label,
                  [NoFrame EXCEPT !.op = "exchange", !.self = k,
                                  !.evp0 = objs[k].evp_pkey, !.peer = peer,
                                  !.calls = e.calls, !.ret = e.ret])
    /\ UNCHANGED <<objs, heap, derived>>

\* exchange deriving with the first key loaded instead of its own
exchange_derive_call_first_key(self_obj, peer) ==
    ProviderCall("_evp_pkey_derive", 1, peer)

\* the arguments exchange gives _evp_pkey_derive: its own handle and the peer
exchange_derive_call(self_obj, peer) ==
    ProviderCall("_evp_pkey_derive", self_obj.evp_pkey, peer)

\* exchange returning half of the secret
exchange_return_truncated(out) == SubSeq(out, 1, Len(out) \div 2)

\* what exchange returns of _evp_pkey_derive's output
exchange_return(out) == out

\* _evp_pkey_derive(backend, evp_pkey, peer_public_key) when it succeeds: the
\* shared secret of evp_pkey's scalar and the peer's point
evp_pkey_derive(evp_pkey, peer) ==
    LE(ScalarMult(heap[evp_pkey].scalar, heap[objs[peer].evp_pkey].point),
       X25519_KEY_SIZE)

\* all it may answer: the secret, or the provider's failure (always, when
\* evp_pkey has no private part)
evp_pkey_derive_results(evp_pkey, peer) ==
    {Raise("ProviderFailure", "Error computing shared key.")}
    \cup (IF heap[evp_pkey].has_private
          THEN {Bytes(evp_pkey_derive(evp_pkey, peer))}
          ELSE {})

Derive(t) ==
    /\ pc[t] = "derive"
    /\ LET f == fr[t]
           c == exchange_derive_call(objs[f.self], f.peer)
       IN  \E out \in evp_pkey_derive_results(c.evp_pkey, c.peer) :
                Enter(t, "done",
                      [f EXCEPT !.calls = Append(@, c), !.buf = out.val,
                                !.res = IF out.kind = "bytes" THEN 1 ELSE 0,
                                !.ret = IF out.kind = "bytes"
                                        THEN Bytes(exchange_return(out.val))
                                        ELSE out])
    /\ UNCHANGED <<objs, heap, derived>>

----------------------------------------------------------------------------
(* _X25519PrivateKey.public_key *)

CallPublicKey(t) ==
    /\ pc[t] = "idle"
    /\ \E k \in PrivateKeys :
        Enter(t, "i2d", [NoFrame EXCEPT !.op = "public_key", !.self = k,
                                        !.evp0 = objs[k].evp_pkey])
    /\ UNCHANGED <<objs, heap, derived>>

\* the key public_key serialises: its own handle
public_key_i2d_call(self_obj) ==
    ProviderCall("i2d_PUBKEY_bio", self_obj.evp_pkey, 0)

\* i2d_PUBKEY_bio(bio, evp_pkey): fails, or writes the key's public part to bio
I2d(t) ==
    /\ pc[t] = "i2d"
    /\ LET f == fr[t]
           c == public_key_i2d_call(objs[f.self])
       IN  \/ LET g == [f EXCEPT !.res = 0, !.calls = Append(@, c)]
              IN  Enter(t, "done", [g EXCEPT !.ret = InternalError])
           \/ LET g == [f EXCEPT !.res = 1, !.calls = Append(@, c),
                                 !.bio = SPKI(heap[c.evp_pkey].point)]
              IN  IF openssl_assert(g.res = 1) = "ok"
                  THEN Enter(t, "d2i", g)
                  ELSE Enter(t, "done", [g EXCEPT !.ret = InternalError])
    /\ UNCHANGED <<objs, heap, derived>>

\* public_key wrapping its own handle instead of the new one
public_key_objs_shared(os, self, evp_pkey) ==
    Append(os, X25519PublicKey_init(os[self].backend, os[self].evp_pkey))

\* public_key keeping the new handle on the private key object as well
public_key_objs_caching(os, self, evp_pkey) ==
    [Append(os, X25519PublicKey_init(os[self].backend, evp_pkey))
        EXCEPT ![self].evp_pkey = evp_pkey]

\* the objects after public_key has built its result around evp_pkey
public_key_objs(os, self, evp_pkey) ==
    Append(os, X25519PublicKey_init(os[self].backend, evp_pkey))

\* d2i_PUBKEY_bio(bio, NULL): NULL, or a new EVP_PKEY read from bio
D2i(t) ==
    /\ pc[t] = "d2i"
    /\ LET f == fr[t]
           c == ProviderCall("d2i_PUBKEY_bio", 0, 0)
           g == [f EXCEPT !.calls = Append(@, c)]
       IN  \/ /\ openssl_assert(NULL # NULL) # "ok"
              /\ Enter(t, "done", [g EXCEPT !.res = 0, !.ret = InternalError])
              /\ UNCHANGED <<objs, heap, derived>>
           \/ /\ IsSPKI(f.bio)
              /\ Len(heap) < MaxHandles
              /\ LET evp_pkey == Len(heap) + 1
                 IN  /\ openssl_assert(evp_pkey # NULL) = "ok"
                     /\ heap' = Append(heap, PublicPKey(SPKIPoint(f.bio)))
                     /\ objs' = public_key_objs(objs, f.self, evp_pkey)
                     /\ derived' = Append(derived, f.self)
                     /\ Enter(t, "done", [g EXCEPT !.res = 1, !.ret = Object(Len(objs) + 1)])

----------------------------------------------------------------------------

Return(t) ==
    /\ pc[t] = "done"
    /\ Enter(t, "idle", NoFrame)
    /\ UNCHANGED <<objs, heap, derived>>

Step(t) ==
    \/ CallPublicBytes(t)
    \/ RawPublicExport(t)
    \/ PublicKeyBytes(t)
    \/ CallPrivateBytes(t)
    \/ RawPrivateExport(t)
    \/ PrivateKeyBytes(t)
    \/ CallExchange(t)
    \/ Derive(t)
    \/ CallPublicKey(t)
    \/ I2d(t)
    \/ D2i(t)
    \/ Return(t)

\* one caller at a time
Next == \E t \in SeqThreads : Step(t)

Spec == Init /\ [][Next]_vars

\* several threads, their calls interleaved, on one pair of keys
InitConc ==
    /\ Init
    /\ heap[1].scalar = 1
    /\ heap[2].scalar = MaxScalar

NextConc == \E t \in Threads : Step(t)

SpecConc == InitConc /\ [][NextConc]_vars

----------------------------------------------------------------------------
(* Properties. *)

Done(t) == pc[t] = "done"

Made(f, fn) == \E i \in DOMAIN f.calls : f.calls[i].fn = fn

\* the raw export path of thread t's call: it stands before the raw export
\* call, or has made it
RawPathTaken(t) ==
    \/ pc[t] \in {"raw_public", "raw_private"}
    \/ Made(fr[t], "EVP_PKEY_get_raw_public_key")
    \/ Made(fr[t], "EVP_PKEY_get_raw_private_key")

InvalidInputCombination(t, msg) ==
    /\ Done(t)
    /\ fr[t].ret = Raise("ValueError", msg)
    /\ fr[t].calls = <<>>

\* C1: public_bytes with exactly one of encoding and format Raw fails with
\* the ValueError of the Raw check and returns no bytes; the raw export path
\* is taken if and only if both are Raw.
C1_PublicRawPairing ==
    \A t \in Threads :
        fr[t].op = "public_bytes" =>
            LET f == fr[t]
            IN  /\ ((f.encoding = "Raw") # (f.format = "Raw"))
                        => InvalidInputCombination(t, RawMsg)
                /\ RawPathTaken(t) <=> (f.encoding = "Raw" /\ f.format = "Raw")

C1_Witness ==
    \E t \in Threads :
        /\ fr[t].op = "public_bytes"
        /\ Done(t)
        /\ fr[t].encoding # "Raw"
        /\ fr[t].format = "Raw"
        /\ fr[t].ret.kind = "ValueError"

\* C2: private_bytes with encoding or format Raw takes the raw export path
\* if and only if encoding is Raw, format is Raw and the algorithm is
\* NoEncryption; every other such call fails with the ValueError of the Raw
\* check.
C2_PrivateRawPairing ==
    \A t \in Threads :
        (fr[t].op = "private_bytes" /\ (fr[t].encoding = "Raw" \/ fr[t].format = "Raw")) =>
            LET f == fr[t]
                all == /\ f.encoding = "Raw"
                       /\ f.format = "Raw"
                       /\ f.encryption_algorithm = "NoEncryption"
            IN  /\ RawPathTaken(t) <=> all
                /\ ~all => InvalidInputCombination(t, RawPrivateMsg)
                /\ (Done(t) /\ f.ret.kind = "bytes") => all

C2_Witness ==
    \E t \in Threads :
        /\ fr[t].op = "private_bytes"
        /\ Done(t)
        /\ fr[t].encoding = "Raw"
        /\ fr[t].format = "Raw"
        /\ fr[t].encryption_algorithm = "BestAvailableEncryption"
        /\ fr[t].ret.kind = "ValueError"

\* C3: exchange with a peer that is no X25519PublicKey ends in TypeError, and
\* a call that ends in TypeError has made no provider call.
C3_TypeGuardFirst ==
    \A t \in Threads :
        fr[t].op = "exchange" =>
            /\ ~isinstance_X25519PublicKey(fr[t].peer) =>
                    (Done(t) /\ fr[t].ret.kind = "TypeError")
            /\ fr[t].ret.kind = "TypeError" => fr[t].calls = <<>>

C3_Witness ==
    \E t \in Threads :
        /\ fr[t].op = "exchange"
        /\ Done(t)
        /\ fr[t].peer \in PrivateKeys
        /\ fr[t].ret.kind = "TypeError"

\* the key bytes a raw export of thread t's key is to return
RawMaterial(f) ==
    LET k == heap[objs[f.self].evp_pkey]
    IN  LE(IF f.op = "public_bytes" THEN k.point ELSE k.scalar, X25519_KEY_SIZE)

\* C4: a raw export that returns bytes returns the 32 bytes of the key, the
\* provider having reported 32; when the provider reports another length the
\* call ends in the fatal assertion and returns no bytes.
C4_RawExportIs32Bytes ==
    \A t \in Threads :
        (Done(t) /\ fr[t].op \in {"public_bytes", "private_bytes"} /\ RawPathTaken(t)) =>
            LET f == fr[t]
            IN  /\ f.ret.kind = "bytes" =>
                        /\ Len(f.ret.val) = X25519_KEY_SIZE
                        /\ f.buflen = X25519_KEY_SIZE
                        /\ f.ret.val = RawMaterial(f)
                /\ (f.res = 1 /\ f.buflen # X25519_KEY_SIZE) => f.ret = InternalError

C4_Witness ==
    \E t \in Threads :
        /\ Done(t)
        /\ fr[t].op = "public_bytes"
        /\ fr[t].res = 1
        /\ fr[t].buflen = X25519_KEY_SIZE - 1
        /\ fr[t].ret = InternalError

\* C5: what exchange returns for a public-key peer is 32 bytes, and is the
\* output of its one derive call (on its own handle and that peer), unchanged.
C5_ExchangeReturnsDeriveOutput ==
    \A t \in Threads :
        (Done(t) /\ fr[t].op = "exchange" /\ fr[t].ret.kind = "bytes") =>
            LET f == fr[t]
            IN  /\ Len(f.ret.val) = X25519_KEY_SIZE
                /\ f.ret.val = f.buf
                /\ f.calls = <<ProviderCall("_evp_pkey_derive", objs[f.self].evp_pkey, f.peer)>>

C5_Witness ==
    \E t \in Threads :
        /\ Done(t)
        /\ fr[t].op = "exchange"
        /\ fr[t].peer \in PublicKeys
        /\ fr[t].ret.kind = "bytes"
        /\ Len(fr[t].ret.val) = X25519_KEY_SIZE

\* a native call of thread t's raw export or public-key derivation has failed
NativeCallFailed(f) ==
    /\ \/ f.op = "public_key"
       \/ Made(f, "EVP_PKEY_get_raw_public_key")
       \/ Made(f, "EVP_PKEY_get_raw_private_key")
    /\ f.res = 0

\* the native call has succeeded and reported a length other than 32
UnexpectedLength(f) ==
    /\ \/ Made(f, "EVP_PKEY_get_raw_public_key")
       \/ Made(f, "EVP_PKEY_get_raw_private_key")
    /\ f.res = 1
    /\ f.buflen # X25519_KEY_SIZE

\* C6, as claimed: a failed native call is signalled otherwise than an
\* unexpected length is, which is the fatal assertion.
C6_FailureDistinctFromAssertion ==
    \A t \in Threads :
        Done(t) =>
            /\ UnexpectedLength(fr[t]) => fr[t].ret = InternalError
            /\ NativeCallFailed(fr[t]) => fr[t].ret # InternalError

\* C6, amended: in the raw export and public-key derivation paths a failed
\* native call and an unexpected length both end in the one fatal assertion
\* of openssl_assert, and that assertion has no other cause.
C6_OneFatalAssertion ==
    \A t \in Threads :
        (Done(t) /\ fr[t].op \in {"public_bytes", "private_bytes", "public_key"}) =>
            ((NativeCallFailed(fr[t]) \/ UnexpectedLength(fr[t]))
                <=> fr[t].ret = InternalError)

C6_Witness ==
    \E t \in Threads :
        /\ Done(t)
        /\ fr[t].op = "public_bytes"
        /\ NativeCallFailed(fr[t])
        /\ fr[t].ret = InternalError

\* what exchange(k, peer) returns when the provider derives
ExchangeValue(k, peer) ==
    LET c == exchange_derive_call(objs[k], peer)
    IN  exchange_return(evp_pkey_derive(c.evp_pkey, c.peer))

\* C7: what exchange(a, b_pub) has returned is what exchange(b, a_pub)
\* returns, for b_pub derived from b and every a_pub derived from a.
C7_ExchangeSymmetry ==
    \A t \in Threads :
        (Done(t) /\ fr[t].op = "exchange" /\ fr[t].ret.kind = "bytes"
                 /\ derived[fr[t].peer] # 0) =>
            \A a_pub \in PublicKeys :
                derived[a_pub] = fr[t].self =>
                    fr[t].ret.val = ExchangeValue(derived[fr[t].peer], a_pub)

C7_Witness ==
    \E t \in Threads :
        /\ Done(t)
        /\ fr[t].op = "exchange"
        /\ fr[t].ret.kind = "bytes"
        /\ derived[fr[t].peer] # 0
        /\ derived[fr[t].peer] # fr[t].self
        /\ heap[objs[derived[fr[t].peer]].evp_pkey].scalar
                # heap[objs[fr[t].self].evp_pkey].scalar
        /\ \E a_pub \in PublicKeys : derived[a_pub] = fr[t].self

\* the bytes a raw export of public key p returns
RawPublicBytes(p) ==
    raw_public_bytes(1, X25519_KEY_SIZE,
                     WriteRaw(ffi_new_buf(X25519_KEY_SIZE),
                              LE(heap[objs[p].evp_pkey].point, X25519_KEY_SIZE),
                              X25519_KEY_SIZE)).val

Derived == {p \in DOMAIN objs : derived[p] # 0}

\* C8: every public key public_key has returned has a handle of its own,
\* shared with no other key object; the call that returned it serialised the
\* private key's own handle; and two public keys derived from one private key
\* export the same raw bytes, those of the private key's public point.
C8_DerivationFreshAndDeterministic ==
    /\ \A p \in Derived :
        /\ objs[p].cls = "X25519PublicKey"
        /\ \A o \in DOMAIN objs : o # p => objs[o].evp_pkey # objs[p].evp_pkey
        /\ RawPublicBytes(p)
                = LE(ScalarBaseMult(heap[objs[derived[p]].evp_pkey].scalar), X25519_KEY_SIZE)
        /\ \A q \in Derived : derived[q] = derived[p] => RawPublicBytes(q) = RawPublicBytes(p)
    /\ \A t \in Threads :
        (Done(t) /\ fr[t].op = "public_key" /\ fr[t].ret.kind = "X25519PublicKey") =>
            /\ fr[t].ret.obj \in Derived
            /\ derived[fr[t].ret.obj] = fr[t].self
            /\ fr[t].calls[1] = ProviderCall("i2d_PUBKEY_bio", objs[fr[t].self].evp_pkey, 0)
            /\ fr[t].calls[2].fn = "d2i_PUBKEY_bio"

C8_Witness ==
    \E t \in Threads, p \in Derived :
        /\ Done(t)
        /\ fr[t].op = "public_key"
        /\ fr[t].ret.kind = "X25519PublicKey"
        /\ fr[t].ret.obj # p
        /\ derived[p] = fr[t].self
        /\ RawPublicBytes(p) = RawPublicBytes(fr[t].ret.obj)

\* the results a call of f's method with f's arguments may return when it
\* runs alone on the key as it was on entry
SequentialResults(f, os, hp) ==
    LET k == hp[f.evp0]
    IN  CASE f.op = "public_bytes" ->
                CASE f.path = "ValueError" -> {Raise("ValueError", RawMsg)}
                  [] f.path = "raw" ->
                        {InternalError, Bytes(LE(k.point, X25519_KEY_SIZE))}
                  [] OTHER -> StructuredResults(f.encoding, SPKI(k.point))
          [] f.op = "private_bytes" ->
                CASE f.path = "ValueError" -> {Raise("ValueError", RawPrivateMsg)}
                  [] f.path = "raw" ->
                        {InternalError, Bytes(LE(k.scalar, X25519_KEY_SIZE))}
                  [] OTHER ->
                        StructuredResults(f.encoding,
                            IF f.encryption_algorithm = "NoEncryption"
                            THEN PKCS8Prefix \o LE(k.scalar, X25519_KEY_SIZE)
                            ELSE <<>>)
          [] f.op = "exchange" ->
                IF f.peer \in DOMAIN os /\ os[f.peer].cls = "X25519PublicKey"
                THEN {Raise("ProviderFailure", "Error computing shared key."),
                      Bytes(LE(ScalarMult(k.scalar, hp[os[f.peer].evp_pkey].point),
                               X25519_KEY_SIZE))}
                ELSE {Raise("TypeError", "peer_public_key must be X25519PublicKey.")}
          [] f.op = "public_key" ->
                {InternalError}
                \cup {Object(o) : o \in {p \in DOMAIN os :
                                            /\ os[p].cls = "X25519PublicKey"
                                            /\ hp[os[p].evp_pkey] = PublicPKey(k.point)}}
          [] OTHER -> {}

\* C9: no step of any thread changes an existing key object (its handle, its
\* backend) or the key an existing handle holds, and every call that has
\* ended, whatever the other thread did meanwhile, has a result the same call
\* running alone returns.
C9_KeysUnchanged ==
    [][/\ \A o \in DOMAIN objs : o \in DOMAIN objs' /\ objs'[o] = objs[o]
       /\ \A h \in DOMAIN heap : h \in DOMAIN heap' /\ heap'[h] = heap[h]
       /\ \A t \in Threads :
            pc'[t] = "done" =>
                /\ fr'[t].evp0 = objs'[fr'[t].self].evp_pkey
                /\ fr'[t].ret \in SequentialResults(fr'[t], objs', heap')]_vars

C9_Witness ==
    \E t \in Threads, u \in Threads :
        /\ t # u
        /\ Done(t)
        /\ Done(u)
        /\ fr[t].self = fr[u].self
        /\ fr[t].op = "public_key"
        /\ fr[t].ret.kind = "X25519PublicKey"
        /\ fr[u].op = "private_bytes"
        /\ fr[u].ret.kind = "bytes"
        /\ fr[u].path = "raw"

\* the one delegation of thread t's call: the caller's encoding and format,
\* and the key and its handle
Delegation(f, fn, alg) ==
    <<Call(fn, f.encoding, f.format, alg, f.self, objs[f.self].evp_pkey, 0, "None")>>

\* C10: a public_bytes or private_bytes call that has ended has taken one of
\* three ways: the raw export (its one provider call), the ValueError of the
\* Raw check (no call at all), or one delegation to the structured encoder.
\* It delegates exactly when neither encoding nor format is Raw, with the
\* caller's encoding, format and handle; a public key passes no algorithm and
\* None, a private key the caller's algorithm.
C10_NoSilentFallback ==
    \A t \in Threads :
        (Done(t) /\ fr[t].op \in {"public_bytes", "private_bytes"}) =>
            LET f == fr[t]
                pub == f.op = "public_bytes"
                raw == f.calls = <<ProviderCall(IF pub THEN "EVP_PKEY_get_raw_public_key"
                                                       ELSE "EVP_PKEY_get_raw_private_key",
                                                objs[f.self].evp_pkey, 0)>>
                invalid == InvalidInputCombination(t, IF pub THEN RawMsg ELSE RawPrivateMsg)
                delegated == f.calls =
                                (IF pub
                                 THEN Delegation(f, "_public_key_bytes", "absent")
                                 ELSE Delegation(f, "_private_key_bytes", f.encryption_algorithm))
            IN  /\ raw \/ invalid \/ delegated
                /\ delegated <=> (f.encoding # "Raw" /\ f.format # "Raw")
                /\ raw => f.ret.kind \in {"bytes", "InternalError"}

C10_Witness ==
    \E t \in Threads :
        /\ Done(t)
        /\ fr[t].op = "private_bytes"
        /\ fr[t].encryption_algorithm = "BestAvailableEncryption"
        /\ fr[t].calls = Delegation(fr[t], "_private_key_bytes", "BestAvailableEncryption")
        /\ fr[t].ret.kind = "bytes"

====
